---- MODULE Spec2Model ----
(***************************************************************************)
(* tubesummy: the transcript chunker (lib/utils/transcript-chunker.ts) and *)
(* the chunk result aggregator (lib/services/llm/openai-provider.ts).      *)
(*                                                                         *)
(* Times are whole seconds.  Indices keep the source's 0-based values;     *)
(* At(items, i) reads items[i].                                            *)
(***************************************************************************)
EXTENDS Integers, Sequences, FiniteSets, TLC

\* ------------------------------------------------------------------------
\* Program constants (transcript-chunker.ts)
\* ------------------------------------------------------------------------
\* youtube-transcript.ts: the longest video fetchTranscript accepts
MAX_DURATION_SECONDS == 120 * 60
TARGET_CHUNK_DURATION == 20 * 60
TOLERANCE_WINDOW == 2 * 60
MIN_GAP_FOR_BREAK == 3
\* the literal of the safety check `chunkIndex > 20`
MAX_CHUNKS == 20
\* stands for JavaScript's Infinity in the fallback scan; every real
\* distance is >= 0
Infinity == -1

\* ------------------------------------------------------------------------
\* Bounds of the explored inputs
\* ------------------------------------------------------------------------
\* longest segment sequence over the segment alphabet
MaxLen == 3
\* longest evenly spaced segment sequence
MaxLongLen == 25

\* most chunks handed to the aggregator when every response is explored
MaxAggChunks == 3
\* most flashcards in one explored response
MaxCards == 2
\* chunks handed to the aggregator in the runs with many successful chunks
MaxLongChunks == 12
\* longest item id in those runs
MaxIdLen == 2
\* most segments of a transcript that goes through a route handler
MaxRouteSegs == 2

StartVals == {0, 1100, 1203, 2400}
DurVals == {0, 100, 102, 1100}
TotalVals == {1320, 1321, 2500}
\* evenly spaced sequences: distance between starts, duration of each one
StrideVals == {100, 3000}
LongDurVals == {100, 2500}

\* ------------------------------------------------------------------------
\* State
\* ------------------------------------------------------------------------
VARIABLES
    items,              \* splitTranscriptIntoChunks: argument items
    totalDuration,      \* splitTranscriptIntoChunks: argument totalDuration
    chunks,             \* the chunks pushed so far / the returned array
    currentStartIndex,  \* 0-based index of the next chunk's first item
    chunkIndex,         \* index given to the next chunk
    warned,             \* console.warn("Too many chunks created ...") ran
    pc                  \* "idle" | "start" | "loop" | "done"

chunkerVars == <<items, totalDuration, chunks, currentStartIndex, chunkIndex,
                 warned, pc>>

VARIABLES
    numChunks,          \* generateFlashcardsFromChunks: chunks.length
    language,           \* generateFlashcardsFromChunks: argument language
    calls,              \* calls[i]: invocations of generateFlashcardsFromChunk
                        \* for chunk i
    results,            \* results[i]: state of the promise of chunk i's call
    apc,                \* "idle" | "awaiting" | "returned" | "threw"
    returned,           \* <<artifact>> once the function has returned
    thrown              \* message of the Error the function threw, or ""

aggVars == <<numChunks, language, calls, results, apc, returned, thrown>>

VARIABLES
    endpoint,           \* the route handler that took the request
    rpc,                \* position of the POST handler
    httpStatus,         \* status of the response, 0 before it is sent
    httpError,          \* the response body's error field, "" if none
    httpSet             \* the flashcard set sent as the body, if any

routeVars == <<endpoint, rpc, httpStatus, httpError, httpSet>>

VARIABLES
    responses,          \* responses[i]: what the LLM will answer for chunk i
    outcomes,           \* outcomes[i]: how chunk i's call will settle
    inflight            \* the chunks whose call has not settled yet

orderVars == <<responses, outcomes, inflight>>

VARIABLES
    videoDuration,      \* the duration getVideoInfo reported, 0 before
    sentTranscript      \* the transcript text sent to the model, "" if none

summaryVars == <<videoDuration, sentTranscript>>

VARIABLES
    mode,               \* Home: the input mode, "url" or "upload"
    url,                \* Home: the text of the link field
    selectedFile,       \* Home: the chosen file's kind, "none" for null
    loading,            \* Home: useState loading
    loadingMessage,     \* Home: useState loadingMessage
    homeError,          \* Home: useState error, <<>> for null
    timers,             \* the messages of the pending timers, earliest first
    hpc,                \* position of the submit handler
    pathname            \* the page the router shows

homeVars == <<mode, url, selectedFile, loading, loadingMessage, homeError,
             timers, hpc, pathname>>

vars == <<items, totalDuration, chunks, currentStartIndex, chunkIndex,
          warned, pc, numChunks, language, calls, results, apc, returned,
          thrown, endpoint, rpc, httpStatus, httpError, httpSet, responses,
          outcomes, inflight, videoDuration, sentTranscript, mode,
          url, selectedFile, loading, loadingMessage, homeError, timers, hpc,
          pathname>>

\* ------------------------------------------------------------------------
\* Helpers for JavaScript arrays and numbers
\* ------------------------------------------------------------------------
At(arr, i) == arr[i + 1]

\* arr.slice(from, to): elements from .. to-1
Slice(arr, from, to) == SubSeq(arr, from + 1, to)

Abs(x) == IF x < 0 THEN -x ELSE x

DigitChar(d) ==
    CASE d = 0 -> "0" [] d = 1 -> "1" [] d = 2 -> "2" [] d = 3 -> "3"
      [] d = 4 -> "4" [] d = 5 -> "5" [] d = 6 -> "6" [] d = 7 -> "7"
      [] d = 8 -> "8" [] d = 9 -> "9"

\* template-literal formatting of a non-negative integer
RECURSIVE NumToString(_)
NumToString(n) ==
    IF n < 10 THEN DigitChar(n)
    ELSE NumToString(n \div 10) \o DigitChar(n % 10)

\* a join that forgets the separator
RECURSIVE JoinTextNoSpace(_)
JoinTextNoSpace(its) ==
    IF Len(its) = 0 THEN "" ELSE its[1].text \o JoinTextNoSpace(Tail(its))

\* its.map((item) => item.text).join(" ")
RECURSIVE JoinText(_)
JoinText(its) ==
    IF Len(its) = 0 THEN ""
    ELSE IF Len(its) = 1 THEN its[1].text
    ELSE its[1].text \o " " \o JoinText(Tail(its))

\* ------------------------------------------------------------------------
\* findNaturalBreakPoint
\* ------------------------------------------------------------------------
ItemEndTime(item) == item.start + item.duration

getGapBetweenItems(current, next) ==
    next.start - (current.start + current.duration)

\* a window test that forgets the lower bound
InToleranceWindowNoMin(itemEndTime, targetEndTime) ==
    itemEndTime <= targetEndTime + TOLERANCE_WINDOW

\* `itemEndTime >= minTime && itemEndTime <= maxTime`
InToleranceWindow(itemEndTime, targetEndTime) ==
    LET minTime == targetEndTime - TOLERANCE_WINDOW
        maxTime == targetEndTime + TOLERANCE_WINDOW
    IN  itemEndTime >= minTime /\ itemEndTime <= maxTime

\* the first loop: candidates pushed from index i on, in index order; the
\* scan stops after the first item that ends past maxTime
RECURSIVE CollectCandidates(_, _, _)
CollectCandidates(its, i, targetEndTime) ==
    IF i >= Len(its) - 1 THEN <<>>
    ELSE
        LET itemEndTime == ItemEndTime(At(its, i))
            maxTime == targetEndTime + TOLERANCE_WINDOW
            here == IF InToleranceWindow(itemEndTime, targetEndTime)
                    THEN << [index |-> i,
                             gap |-> getGapBetweenItems(At(its, i), At(its, i + 1)),
                             timeDiff |-> Abs(itemEndTime - targetEndTime)] >>
                    ELSE <<>>
        IN  IF itemEndTime > maxTime THEN here
            ELSE here \o CollectCandidates(its, i + 1, targetEndTime)

\* a comparator that looks at the distance to the target only
CompareCandidatesNearest(a, b) == a.timeDiff - b.timeDiff

\* the comparator handed to candidates.sort: negative puts a first
CompareCandidates(a, b) ==
    LET aHasGap == a.gap >= MIN_GAP_FOR_BREAK
        bHasGap == b.gap >= MIN_GAP_FOR_BREAK
    IN  IF aHasGap /\ ~bHasGap THEN -1
        ELSE IF ~aHasGap /\ bHasGap THEN 1
        ELSE IF a.gap # b.gap THEN b.gap - a.gap
        ELSE a.timeDiff - b.timeDiff

\* Array.prototype.sort is stable: c goes after every element it does not
\* strictly precede
RECURSIVE InsertCandidate(_, _)
InsertCandidate(sorted, c) ==
    IF Len(sorted) = 0 THEN <<c>>
    ELSE IF CompareCandidates(c, sorted[1]) < 0 THEN <<c>> \o sorted
    ELSE <<sorted[1]>> \o InsertCandidate(Tail(sorted), c)

RECURSIVE SortCandidates(_)
SortCandidates(cands) ==
    IF Len(cands) = 0 THEN <<>>
    ELSE InsertCandidate(SortCandidates(SubSeq(cands, 1, Len(cands) - 1)),
                         cands[Len(cands)])

\* a fallback loop that lets a later equidistant item replace the closest
RECURSIVE ClosestScanLastTie(_, _, _, _, _)
ClosestScanLastTie(its, i, targetEndTime, closestIndex, closestDiff) ==
    IF i >= Len(its) THEN closestIndex
    ELSE
        LET itemEndTime == ItemEndTime(At(its, i))
            diff == Abs(itemEndTime - targetEndTime)
            better == closestDiff = Infinity \/ diff <= closestDiff
            ci == IF better THEN i ELSE closestIndex
            cd == IF better THEN diff ELSE closestDiff
        IN  IF itemEndTime > targetEndTime + TOLERANCE_WINDOW * 2 THEN ci
            ELSE ClosestScanLastTie(its, i + 1, targetEndTime, ci, cd)

\* the fallback loop: closest end time, scanning from index i
RECURSIVE ClosestScan(_, _, _, _, _)
ClosestScan(its, i, targetEndTime, closestIndex, closestDiff) ==
    IF i >= Len(its) THEN closestIndex
    ELSE
        LET itemEndTime == ItemEndTime(At(its, i))
            diff == Abs(itemEndTime - targetEndTime)
            better == closestDiff = Infinity \/ diff < closestDiff
            ci == IF better THEN i ELSE closestIndex
            cd == IF better THEN diff ELSE closestDiff
        IN  IF itemEndTime > targetEndTime + TOLERANCE_WINDOW * 2 THEN ci
            ELSE ClosestScan(its, i + 1, targetEndTime, ci, cd)

findNaturalBreakPoint(its, startIndex, targetEndTime) ==
    LET candidates == CollectCandidates(its, startIndex, targetEndTime)
    IN  IF Len(candidates) = 0
        THEN ClosestScan(its, startIndex, targetEndTime, startIndex, Infinity)
        ELSE SortCandidates(candidates)[1].index

\* ------------------------------------------------------------------------
\* splitTranscriptIntoChunks
\* ------------------------------------------------------------------------
\* the chunk literal pushed for its = a slice of items
MakeChunk(idx, its, startTime, endTime) ==
    [index |-> idx, items |-> its, startTime |-> startTime,
     endTime |-> endTime, text |-> JoinText(its)]

TranscriptEndTime(its) == ItemEndTime(At(its, Len(its) - 1))

\* a shortcut that forgets the tolerance window
IsShortTranscriptNoTolerance(total) == total <= TARGET_CHUNK_DURATION

\* `totalDuration <= TARGET_CHUNK_DURATION + TOLERANCE_WINDOW`
IsShortTranscript(total) == total <= TARGET_CHUNK_DURATION + TOLERANCE_WINDOW

\* an end test that forgets the tolerance window
NearTranscriptEndNoTolerance(its, targetEndTime) ==
    targetEndTime >= TranscriptEndTime(its)

\* `targetEndTime >= transcriptEndTime - TOLERANCE_WINDOW`
NearTranscriptEnd(its, targetEndTime) ==
    targetEndTime >= TranscriptEndTime(its) - TOLERANCE_WINDOW

\* `chunkIndex > 20`, read after chunkIndex++
SafetyCheck(idx) == idx > MAX_CHUNKS

\* a remainder that keeps only the first of the segments left
RemainingItemsFirstOnly(its, from) == Slice(its, from, from + 1)

\* `items.slice(currentStartIndex)`
RemainingItems(its, from) == Slice(its, from, Len(its))

\* a next start that skips the item after the break
NextStartIndexSkip(breakIndex) == breakIndex + 2

\* a next start that stays on the break item
NextStartIndexStay(breakIndex) == breakIndex

\* `currentStartIndex = breakIndex + 1`
NextStartIndex(breakIndex) == breakIndex + 1

\* if (items.length === 0) return [];
ReturnEmpty ==
    /\ pc = "start"
    /\ Len(items) = 0
    /\ chunks' = <<>>
    /\ pc' = "done"
    /\ UNCHANGED <<items, totalDuration, currentStartIndex, chunkIndex, warned>>
    /\ UNCHANGED aggVars
    /\ UNCHANGED routeVars
    /\ UNCHANGED orderVars
    /\ UNCHANGED summaryVars
    /\ UNCHANGED homeVars

\* the single-chunk shortcut
ReturnSingleChunk ==
    /\ pc = "start"
    /\ Len(items) # 0
    /\ IsShortTranscript(totalDuration)
    /\ chunks' = << MakeChunk(0, items, At(items, 0).start,
                              TranscriptEndTime(items)) >>
    /\ pc' = "done"
    /\ UNCHANGED <<items, totalDuration, currentStartIndex, chunkIndex, warned>>
    /\ UNCHANGED aggVars
    /\ UNCHANGED routeVars
    /\ UNCHANGED orderVars
    /\ UNCHANGED summaryVars
    /\ UNCHANGED homeVars

\* const chunks = []; let currentStartIndex = 0; let chunkIndex = 0;
EnterLoop ==
    /\ pc = "start"
    /\ Len(items) # 0
    /\ ~IsShortTranscript(totalDuration)
    /\ chunks' = <<>>
    /\ currentStartIndex' = 0
    /\ chunkIndex' = 0
    /\ pc' = "loop"
    /\ UNCHANGED <<items, totalDuration, warned>>
    /\ UNCHANGED aggVars
    /\ UNCHANGED routeVars
    /\ UNCHANGED orderVars
    /\ UNCHANGED summaryVars
    /\ UNCHANGED homeVars

\* one iteration that takes the "near the end of the transcript" branch
FinalChunk ==
    /\ pc = "loop"
    /\ currentStartIndex < Len(items)
    /\ LET chunkStartTime == At(items, currentStartIndex).start
           targetEndTime == chunkStartTime + TARGET_CHUNK_DURATION
       IN  /\ NearTranscriptEnd(items, targetEndTime)
           /\ chunks' = Append(chunks,
                  MakeChunk(chunkIndex,
                            Slice(items, currentStartIndex, Len(items)),
                            chunkStartTime, TranscriptEndTime(items)))
    /\ pc' = "done"
    /\ UNCHANGED <<items, totalDuration, currentStartIndex, chunkIndex, warned>>
    /\ UNCHANGED aggVars
    /\ UNCHANGED routeVars
    /\ UNCHANGED orderVars
    /\ UNCHANGED summaryVars
    /\ UNCHANGED homeVars

\* one iteration that breaks at findNaturalBreakPoint, the safety check
\* included
BreakChunk ==
    /\ pc = "loop"
    /\ currentStartIndex < Len(items)
    /\ LET chunkStartTime == At(items, currentStartIndex).start
           targetEndTime == chunkStartTime + TARGET_CHUNK_DURATION
           breakIndex == findNaturalBreakPoint(items, currentStartIndex,
                                               targetEndTime)
           chunkItems == Slice(items, currentStartIndex, breakIndex + 1)
           lastChunkItem == At(chunkItems, Len(chunkItems) - 1)
           pushed == Append(chunks,
                        MakeChunk(chunkIndex, chunkItems, chunkStartTime,
                                  ItemEndTime(lastChunkItem)))
           newStart == NextStartIndex(breakIndex)
           newIndex == chunkIndex + 1
           remainingItems == RemainingItems(items, newStart)
       IN  /\ ~NearTranscriptEnd(items, targetEndTime)
           /\ currentStartIndex' = newStart
           /\ chunkIndex' = newIndex
           /\ IF SafetyCheck(newIndex)
              THEN /\ warned' = TRUE
                   /\ chunks' =
                        IF newStart < Len(items)
                        THEN Append(pushed,
                               MakeChunk(newIndex, remainingItems,
                                         At(remainingItems, 0).start,
                                         TranscriptEndTime(remainingItems)))
                        ELSE pushed
                   /\ pc' = "done"
              ELSE /\ warned' = warned
                   /\ chunks' = pushed
                   /\ pc' = "loop"
    /\ UNCHANGED <<items, totalDuration>>
    /\ UNCHANGED aggVars
    /\ UNCHANGED routeVars
    /\ UNCHANGED orderVars
    /\ UNCHANGED summaryVars
    /\ UNCHANGED homeVars

\* while (currentStartIndex < items.length) fails; return chunks
LoopExit ==
    /\ pc = "loop"
    /\ ~(currentStartIndex < Len(items))
    /\ pc' = "done"
    /\ UNCHANGED <<items, totalDuration, chunks, currentStartIndex,
                   chunkIndex, warned>>
    /\ UNCHANGED aggVars
    /\ UNCHANGED routeVars
    /\ UNCHANGED orderVars
    /\ UNCHANGED summaryVars
    /\ UNCHANGED homeVars

\* ------------------------------------------------------------------------
\* generateFlashcardsFromChunk: from the LLM response to the promise's state
\* (tags and videoUrl are carried through unchanged and left out)
\* ------------------------------------------------------------------------
Pending == [status |-> "pending", value |-> <<>>, reason |-> ""]
Fulfilled(v) == [status |-> "fulfilled", value |-> <<v>>, reason |-> ""]
Rejected(msg) == [status |-> "rejected", value |-> <<>>, reason |-> msg]

Difficulties == {"beginner", "intermediate", "advanced"}

\* an item schema that takes any text, the empty one too
flashcardSchemaAnyText(card) == TRUE

\* flashcardSchema: id is any string, question and answer are non-empty
flashcardSchema(card) ==
    /\ Len(card.question) >= 1
    /\ Len(card.answer) >= 1

\* flashcardSetSchema: z.object, so every key has to be there
flashcardSetSchema(parsed) ==
    /\ {"topic", "difficulty", "flashcards"} \subseteq DOMAIN parsed
    /\ Len(parsed.topic) >= 1
    /\ parsed.difficulty \in Difficulties
    /\ Len(parsed.flashcards) >= 1
    /\ \A p \in 1..Len(parsed.flashcards) : flashcardSchema(parsed.flashcards[p])

\* lines 244-265: resp.kind is "none" (no content), "text" (content that is
\* not JSON) or "json" (content that parses to resp.parsed)
ChunkOutcome(resp, lang) ==
    IF resp.kind = "none" THEN Rejected("No response content from LLM")
    ELSE IF resp.kind = "text"
    THEN Rejected("Failed to parse LLM response as JSON")
    ELSE IF ~flashcardSetSchema(resp.parsed)
    THEN Rejected("LLM response did not match expected flashcard format")
    ELSE Fulfilled([topic |-> resp.parsed.topic,
                    difficulty |-> resp.parsed.difficulty,
                    flashcards |-> resp.parsed.flashcards,
                    language |-> lang])

\* ------------------------------------------------------------------------
\* generateFlashcardsFromChunks: the merge
\* ------------------------------------------------------------------------
\* results.forEach: the fulfilled values, in index order
RECURSIVE SuccessfulSetsFrom(_, _)
SuccessfulSetsFrom(res, index) ==
    IF index >= Len(res) THEN <<>>
    ELSE (IF At(res, index).status = "fulfilled"
          THEN At(res, index).value ELSE <<>>)
         \o SuccessfulSetsFrom(res, index + 1)

\* results.forEach: the 0-based indices of the calls that are not fulfilled
RECURSIVE FailedChunksFrom(_, _)
FailedChunksFrom(res, index) ==
    IF index >= Len(res) THEN <<>>
    ELSE (IF At(res, index).status = "fulfilled" THEN <<>> ELSE <<index>>)
         \o FailedChunksFrom(res, index + 1)

\* a prefix that forgets the + 1
RekeyIdZeroBased(setIndex, id) == NumToString(setIndex) \o "-" \o id

\* a prefix without the separator
RekeyIdNoSeparator(setIndex, id) == NumToString(setIndex + 1) \o id

\* `${setIndex + 1}-${card.id}`
RekeyId(setIndex, id) == NumToString(setIndex + 1) \o "-" \o id

\* set.flashcards.forEach: { ...card, id: ... }
RekeyCards(setIndex, cards) ==
    [p \in 1..Len(cards) |->
        [cards[p] EXCEPT !.id = RekeyId(setIndex, cards[p].id)]]

\* successfulSets.forEach from setIndex on
RECURSIVE ConsolidateFrom(_, _)
ConsolidateFrom(sets, setIndex) ==
    IF setIndex >= Len(sets) THEN <<>>
    ELSE RekeyCards(setIndex, At(sets, setIndex).flashcards)
         \o ConsolidateFrom(sets, setIndex + 1)

\* a suffix that counts every topic, the first one included
MainTopicCountsAll(sets) ==
    LET topics == [j \in 1..Len(sets) |-> sets[j].topic]
    IN  IF Len(topics) = 1 THEN At(topics, 0)
        ELSE At(topics, 0) \o " (e mais " \o NumToString(Len(topics))
             \o " tópicos)"

\* topics.length === 1 ? topics[0] : `${topics[0]} (e mais ${...} tópicos)`
MainTopic(sets) ==
    LET topics == [j \in 1..Len(sets) |-> sets[j].topic]
    IN  IF Len(topics) = 1 THEN At(topics, 0)
        ELSE At(topics, 0) \o " (e mais " \o NumToString(Len(topics) - 1)
             \o " tópicos)"

\* acc[d] = (acc[d] || 0) + 1; the entries keep insertion order
AddCount(acc, d) ==
    IF \E e \in 1..Len(acc) : acc[e].key = d
    THEN [e \in 1..Len(acc) |->
            IF acc[e].key = d
            THEN [key |-> d, count |-> acc[e].count + 1] ELSE acc[e]]
    ELSE Append(acc, [key |-> d, count |-> 1])

RECURSIVE DifficultyCount(_)
DifficultyCount(difficulties) ==
    IF Len(difficulties) = 0 THEN <<>>
    ELSE AddCount(DifficultyCount(SubSeq(difficulties, 1, Len(difficulties) - 1)),
                  difficulties[Len(difficulties)])

\* a sort that puts the later of two equal counts first
RECURSIVE InsertEntryTiesLast(_, _)
InsertEntryTiesLast(sorted, e) ==
    IF Len(sorted) = 0 THEN <<e>>
    ELSE IF sorted[1].count - e.count <= 0 THEN <<e>> \o sorted
    ELSE <<sorted[1]>> \o InsertEntryTiesLast(Tail(sorted), e)

\* the stable sort by (a, b) => b[1] - a[1]
RECURSIVE InsertEntry(_, _)
InsertEntry(sorted, e) ==
    IF Len(sorted) = 0 THEN <<e>>
    ELSE IF sorted[1].count - e.count < 0 THEN <<e>> \o sorted
    ELSE <<sorted[1]>> \o InsertEntry(Tail(sorted), e)

RECURSIVE SortEntries(_)
SortEntries(entries) ==
    IF Len(entries) = 0 THEN <<>>
    ELSE InsertEntry(SortEntries(SubSeq(entries, 1, Len(entries) - 1)),
                     entries[Len(entries)])

MainDifficulty(sets) ==
    LET difficulties == [j \in 1..Len(sets) |-> sets[j].difficulty]
        sorted == SortEntries(DifficultyCount(difficulties))
    IN  IF Len(sorted) = 0 THEN "intermediate" ELSE sorted[1].key

\* the returned object
MergedArtifact(sets, lang, total) ==
    [topic |-> MainTopic(sets),
     difficulty |-> MainDifficulty(sets),
     language |-> lang,
     flashcards |-> ConsolidateFrom(sets, 0),
     metadata |-> [totalChunks |-> total, successfulChunks |-> Len(sets)]]

\* ------------------------------------------------------------------------
\* Inputs of the chunker
\* ------------------------------------------------------------------------
\* item texts are tagged with the item's position, so that equal segments
\* stay distinguishable in the output
WordAt(i) == "w" \o NumToString(i)

SegAlphabet == [start : StartVals, duration : DurVals]

\* every sequence of up to MaxLen segments over the alphabet, in any order
AlphabetInput(n, f) ==
    [i \in 1..n |-> [text |-> WordAt(i), start |-> f[i].start,
                     duration |-> f[i].duration]]

\* an empty segment at 0 (a caption such as "[Music]") in front of n segments
\* over the alphabet
LeadInput(n, f) ==
    [i \in 1..(n + 1) |->
        IF i = 1 THEN [text |-> WordAt(1), start |-> 0, duration |-> 0]
        ELSE [text |-> WordAt(i), start |-> f[i - 1].start,
              duration |-> f[i - 1].duration]]

\* n evenly spaced segments of equal duration
LongInput(n, s, d) ==
    [i \in 1..n |-> [text |-> WordAt(i), start |-> (i - 1) * s,
                     duration |-> d]]

\* nothing has been called yet
ChunkerInit ==
    /\ items = <<>>
    /\ totalDuration = 0
    /\ chunks = <<>>
    /\ currentStartIndex = 0
    /\ chunkIndex = 0
    /\ warned = FALSE
    /\ pc = "idle"

\* a caller invokes splitTranscriptIntoChunks(items, totalDuration)
CallSplit ==
    /\ pc = "idle"
    /\ \/ \E n \in 0..MaxLen : \E f \in [1..n -> SegAlphabet] :
             items' = AlphabetInput(n, f)
       \/ \E n \in 1..MaxLen : \E f \in [1..n -> SegAlphabet] :
             items' = LeadInput(n, f)
       \/ \E n \in 1..MaxLongLen, s \in StrideVals,
             d \in LongDurVals :
             items' = LongInput(n, s, d)
    /\ totalDuration' \in TotalVals
    /\ pc' = "start"
    /\ UNCHANGED <<chunks, currentStartIndex, chunkIndex, warned>>
    /\ UNCHANGED aggVars
    /\ UNCHANGED routeVars
    /\ UNCHANGED orderVars
    /\ UNCHANGED summaryVars
    /\ UNCHANGED homeVars

ChunkerNext ==
    \/ CallSplit
    \/ ReturnEmpty
    \/ ReturnSingleChunk
    \/ EnterLoop
    \/ FinalChunk
    \/ BreakChunk
    \/ LoopExit

\* ------------------------------------------------------------------------
\* generateFlashcardsFromChunks: the call, the per-chunk calls, the resume
\* ------------------------------------------------------------------------
Languages == {"pt-BR", "en"}
Ids == {"1", "2"}
Topics == {"A", "B"}

Card(id) == [id |-> id, question |-> "q", answer |-> "a"]

EmptyParsed == [topic |-> "", difficulty |-> "", flashcards |-> <<>>]

\* well-formed objects whose item ids vary
IdFamily ==
    { [topic |-> "A", difficulty |-> "intermediate",
       flashcards |-> [p \in 1..n |-> Card(f[p])]] :
      n \in 1..MaxCards, f \in [1..MaxCards -> Ids] }

\* well-formed objects whose topic and difficulty vary
TopicFamily ==
    { [topic |-> t, difficulty |-> d, flashcards |-> <<Card("1")>>] :
      t \in Topics, d \in Difficulties }

\* objects that the schema rejects
InvalidFamily ==
    { [topic |-> "", difficulty |-> "beginner", flashcards |-> <<Card("1")>>],
      [topic |-> "A", difficulty |-> "expert", flashcards |-> <<Card("1")>>],
      [topic |-> "A", difficulty |-> "beginner", flashcards |-> <<>>],
      [topic |-> "A", difficulty |-> "beginner",
       flashcards |-> <<[id |-> "1", question |-> "", answer |-> "a"]>>],
      [topic |-> "A", difficulty |-> "beginner",
       flashcards |-> <<Card("1"), [id |-> "2", question |-> "q", answer |-> ""]>>] }

Responses ==
    { [kind |-> "none", parsed |-> EmptyParsed],
      [kind |-> "text", parsed |-> EmptyParsed] }
    \cup { [kind |-> "json", parsed |-> o] :
           o \in IdFamily \cup TopicFamily \cup InvalidFamily }

\* a wait that ends at the first rejection, as Promise.all would
AllFulfilledOrOneRejected(res) ==
    \/ \A i \in 1..Len(res) : res[i].status = "fulfilled"
    \/ \E i \in 1..Len(res) : res[i].status = "rejected"

\* await Promise.allSettled(...): every promise is fulfilled or rejected
AllSettled(res) == \A i \in 1..Len(res) : res[i].status # "pending"

\* a failure test that gives up on the first failed chunk
AnyFailure(successfulSets, failedChunks) == Len(failedChunks) > 0

\* `successfulSets.length === 0`
TotalFailure(successfulSets, failedChunks) == Len(successfulSets) = 0

\* a guard that lets an empty chunk list through
NoChunksNever(n) == FALSE

\* `chunks.length === 0`
NoChunksProvided(n) == n = 0

\* a fan-out that issues the first call only and leaves the others for later
CallsIssuedFirstOnly(n) == [i \in 1..n |-> IF i = 1 THEN 1 ELSE 0]

\* chunks.map((chunk) => generateFlashcardsFromChunk(chunk, language)): one
\* invocation per chunk, all made before the await
CallsIssued(n) == [i \in 1..n |-> 1]

AggInit ==
    /\ numChunks = 0
    /\ language = "en"
    /\ calls = <<>>
    /\ results = <<>>
    /\ apc = "idle"
    /\ returned = <<>>
    /\ thrown = ""

\* lines 276-283 up to the await: the zero-chunks error, or one call of
\* generateFlashcardsFromChunk for every chunk
StartAggregate(n, lang) ==
    /\ numChunks' = n
    /\ language' = lang
    /\ returned' = returned
    /\ IF NoChunksProvided(n)
       THEN /\ thrown' = "No transcript chunks provided"
            /\ apc' = "threw"
            /\ calls' = <<>>
            /\ results' = <<>>
       ELSE /\ thrown' = thrown
            /\ apc' = "awaiting"
            /\ calls' = CallsIssued(n)
            /\ results' = [i \in 1..n |-> Pending]

\* a caller invokes generateFlashcardsFromChunks(chunks, language)
CallAggregate ==
    /\ apc = "idle"
    /\ \E n \in 0..MaxAggChunks, lang \in Languages : StartAggregate(n, lang)
    /\ UNCHANGED chunkerVars
    /\ UNCHANGED routeVars
    /\ UNCHANGED orderVars
    /\ UNCHANGED summaryVars
    /\ UNCHANGED homeVars

\* client.chat.completions.create rejects for chunk i (timeout, quota, ...)
ChunkCallFails(i) ==
    /\ i \in 1..Len(results)
    /\ results[i].status = "pending"
    /\ results' = [results EXCEPT ![i] = Rejected("request failed")]
    /\ UNCHANGED <<numChunks, language, calls, apc, returned, thrown>>
    /\ UNCHANGED chunkerVars
    /\ UNCHANGED routeVars
    /\ UNCHANGED orderVars
    /\ UNCHANGED summaryVars
    /\ UNCHANGED homeVars

\* the LLM answers chunk i's call
ChunkResponds(i) ==
    /\ i \in 1..Len(results)
    /\ results[i].status = "pending"
    /\ \E resp \in Responses :
          results' = [results EXCEPT ![i] = ChunkOutcome(resp, language)]
    /\ UNCHANGED <<numChunks, language, calls, apc, returned, thrown>>
    /\ UNCHANGED chunkerVars
    /\ UNCHANGED routeVars
    /\ UNCHANGED orderVars
    /\ UNCHANGED summaryVars
    /\ UNCHANGED homeVars

\* lines 285-347: the await resumes, the results are merged
AggregateResume ==
    /\ apc = "awaiting"
    /\ AllSettled(results)
    /\ LET successfulSets == SuccessfulSetsFrom(results, 0)
           failedChunks == FailedChunksFrom(results, 0)
       IN  IF TotalFailure(successfulSets, failedChunks)
           THEN /\ thrown' = "All chunks failed to generate flashcards"
                /\ apc' = "threw"
                /\ returned' = returned
           ELSE /\ returned' = << MergedArtifact(successfulSets, language,
                                                 numChunks) >>
                /\ apc' = "returned"
                /\ thrown' = thrown
    /\ UNCHANGED <<numChunks, language, calls, results>>
    /\ UNCHANGED chunkerVars
    /\ UNCHANGED routeVars
    /\ UNCHANGED orderVars
    /\ UNCHANGED summaryVars
    /\ UNCHANGED homeVars

AggNext ==
    \/ CallAggregate
    \/ \E i \in 1..MaxAggChunks : ChunkCallFails(i)
    \/ \E i \in 1..MaxAggChunks : ChunkResponds(i)
    \/ AggregateResume

\* ------------------------------------------------------------------------
\* Runs with many successful chunks: the call and the responses of all its
\* per-chunk calls, in one step
\* ------------------------------------------------------------------------
IdChars == {"1", "2", "-"}

RECURSIVE StringsUpTo(_)
StringsUpTo(n) ==
    IF n = 0 THEN {""}
    ELSE LET shorter == StringsUpTo(n - 1)
         IN  shorter \cup { str \o c : str \in shorter, c \in IdChars }

\* the schema takes any string as an id
IdStrings == StringsUpTo(MaxIdLen) \cup {"1-2"}

OneCardResponse(id) ==
    [kind |-> "json",
     parsed |-> [topic |-> "A", difficulty |-> "beginner",
                 flashcards |-> <<Card(id)>>]]

\* MaxLongChunks chunks, one item each: ida at chunk a, idb at chunk b, "1"
\* elsewhere
CallAggregateSettled ==
    /\ apc = "idle"
    /\ \E a \in 1..MaxLongChunks, b \in 1..MaxLongChunks,
          ida \in IdStrings, idb \in IdStrings :
          /\ a < b
          /\ numChunks' = MaxLongChunks
          /\ language' = "en"
          /\ calls' = [i \in 1..MaxLongChunks |-> 1]
          /\ results' = [i \in 1..MaxLongChunks |->
                ChunkOutcome(
                    OneCardResponse(IF i = a THEN ida
                                    ELSE IF i = b THEN idb ELSE "1"),
                    "en")]
    /\ apc' = "awaiting"
    /\ UNCHANGED <<returned, thrown>>
    /\ UNCHANGED chunkerVars
    /\ UNCHANGED routeVars
    /\ UNCHANGED orderVars
    /\ UNCHANGED summaryVars
    /\ UNCHANGED homeVars

LongAggNext ==
    \/ CallAggregateSettled
    \/ AggregateResume

\* ------------------------------------------------------------------------
\* The route handlers: POST /api/flashcards and POST /api/flashcards/upload
\* ------------------------------------------------------------------------
\* String.prototype.includes
Includes(s, sub) ==
    \E i \in 1..(Len(s) - Len(sub) + 1) : SubSeq(s, i, i + Len(sub) - 1) = sub

HttpError(status, error) == [status |-> status, error |-> error]

\* the catch block of POST /api/flashcards, its rules in source order; the
\* first rule's variant spelled with the typographic apostrophe (U+2019), a
\* character these strings cannot hold, answers as the ASCII one does
YoutubeErrorResponse(errorMessage) ==
    IF \/ Includes(errorMessage, "cookies-from-browser")
       \/ Includes(errorMessage, "Sign in to confirm you're not a bot")
    THEN HttpError(400, "YouTube is asking for sign-in or extra verification for this video, so it can't be processed automatically. Try another video that is publicly accessible.")
    ELSE IF \/ Includes(errorMessage, "2-hour limit")
            \/ Includes(errorMessage, "exceeds")
    THEN HttpError(400, "Only videos up to 2 hours are supported.")
    ELSE IF \/ Includes(errorMessage, "Invalid YouTube URL")
            \/ Includes(errorMessage, "Could not retrieve video")
            \/ Includes(errorMessage, "Video unavailable")
    THEN HttpError(400, "Could not access this video. Please check the URL.")
    ELSE IF \/ Includes(errorMessage, "Failed to download")
            \/ Includes(errorMessage, "No transcript segments")
    THEN HttpError(500, "Failed to process video audio. Please try again.")
    ELSE IF Includes(errorMessage, "OPENAI_API_KEY")
    THEN HttpError(500, "OpenAI API key is not configured.")
    ELSE IF Includes(errorMessage, "All chunks failed")
    THEN HttpError(500, "Failed to generate flashcards. Please try again.")
    ELSE HttpError(500, "Something went wrong while generating flashcards.")

\* a catch block that has lost its "All chunks failed" rule
UploadErrorResponseNoRule(errorMessage) ==
    HttpError(500, "Something went wrong while processing your file.")

\* the catch block of POST /api/flashcards/upload, its rules in source order
UploadErrorResponse(errorMessage) ==
    IF Includes(errorMessage, "OPENAI_API_KEY")
    THEN HttpError(500, "OpenAI API key is not configured.")
    ELSE IF \/ Includes(errorMessage, "413")
            \/ Includes(errorMessage, "Maximum content size")
    THEN HttpError(400, "File is too large for transcription. Please use a shorter recording or compress the audio.")
    ELSE IF \/ Includes(errorMessage, "ffmpeg")
            \/ Includes(errorMessage, "Failed to extract")
    THEN HttpError(400, errorMessage)
    ELSE IF \/ Includes(errorMessage, "Invalid file format")
            \/ Includes(errorMessage, "Could not process")
    THEN HttpError(400, "Could not process this file. Make sure it contains valid audio.")
    ELSE IF Includes(errorMessage, "All chunks failed")
    THEN HttpError(500, "Failed to generate flashcards. Please try again.")
    ELSE HttpError(500, "Something went wrong while processing your file.")

ErrorResponse(ep, errorMessage) ==
    IF ep = "youtube" THEN YoutubeErrorResponse(errorMessage)
    ELSE UploadErrorResponse(errorMessage)

\* what fetchTranscript and the tools it runs throw
YoutubeErrors ==
    { "Failed to download yt-dlp binary. Please install yt-dlp manually: https://github.com/yt-dlp/yt-dlp#installation",
      "Could not retrieve video information.",
      "Invalid YouTube URL.",
      "Video duration (130 minutes) exceeds the 2-hour limit.",
      "Failed to locate downloaded audio file.",
      "Downloaded audio file is empty.",
      "OPENAI_API_KEY is not configured.",
      "ERROR: [youtube] Sign in to confirm you're not a bot.",
      "ERROR: Use --cookies-from-browser or --cookies for the authentication.",
      "ERROR: [youtube] Video unavailable" }

\* what the upload handler's audio steps and transcribeAudio throw
UploadErrors ==
    { "Failed to extract audio from video. Make sure ffmpeg is installed.",
      "Failed to compress audio file.",
      "OPENAI_API_KEY is not configured.",
      "413 Maximum content size limit exceeded",
      "400 Invalid file format." }

\* the early returns of the two handlers, all with status 400
YoutubeRejections ==
    { "Invalid request payload.", "Please provide a valid YouTube URL." }

UploadRejections ==
    { "No file provided. Please select an audio or video file.",
      "Video files require ffmpeg to be installed on the server. Please upload an audio file (mp3, m4a, wav) instead, or install ffmpeg." }

RouteInit ==
    /\ endpoint = "none"
    /\ rpc = "idle"
    /\ httpStatus = 0
    /\ httpError = ""
    /\ httpSet = <<>>

\* NextResponse.json({ error }, { status })
RespondError(resp) ==
    /\ httpStatus' = resp.status
    /\ httpError' = resp.error
    /\ httpSet' = <<>>
    /\ rpc' = "responded"

\* an early return with status 400, or on to the transcription
RejectOrTranscribe(rejections) ==
    \/ \E error \in rejections : RespondError(HttpError(400, error))
    \/ /\ rpc' = "transcribing"
       /\ UNCHANGED <<httpStatus, httpError, httpSet>>

\* POST /api/flashcards up to `await fetchTranscript(url, language)`
PostYoutube ==
    /\ rpc = "idle"
    /\ endpoint' = "youtube"
    /\ language' \in Languages
    /\ RejectOrTranscribe(YoutubeRejections)
    /\ UNCHANGED <<numChunks, calls, results, apc, returned, thrown>>
    /\ UNCHANGED chunkerVars
    /\ UNCHANGED orderVars
    /\ UNCHANGED summaryVars
    /\ UNCHANGED homeVars

\* POST /api/flashcards/upload up to the audio steps and transcribeAudio
PostUpload ==
    /\ rpc = "idle"
    /\ endpoint' = "upload"
    /\ language' \in Languages
    /\ RejectOrTranscribe(UploadRejections)
    /\ UNCHANGED <<numChunks, calls, results, apc, returned, thrown>>
    /\ UNCHANGED chunkerVars
    /\ UNCHANGED orderVars
    /\ UNCHANGED summaryVars
    /\ UNCHANGED homeVars

\* the transcription step throws; the catch block answers
TranscriptFails ==
    /\ rpc = "transcribing"
    /\ \E errorMessage \in (IF endpoint = "youtube" THEN YoutubeErrors
                            ELSE UploadErrors) :
          RespondError(ErrorResponse(endpoint, errorMessage))
    /\ UNCHANGED endpoint
    /\ UNCHANGED aggVars
    /\ UNCHANGED chunkerVars
    /\ UNCHANGED orderVars
    /\ UNCHANGED summaryVars
    /\ UNCHANGED homeVars


\* `items.length === 0`, in fetchTranscript and in the upload handler
NoSegments(its) == Len(its) = 0

\* the transcription returns n segments: an empty transcript is refused (by
\* fetchTranscript's throw, by the upload handler's early return), any other
\* goes to splitTranscriptIntoChunks with the last segment's end as duration
TranscriptArrives ==
    /\ rpc = "transcribing"
    /\ \E n \in 0..MaxRouteSegs, s \in StrideVals, d \in LongDurVals :
          LET its == LongInput(n, s, d)
          IN  IF NoSegments(its)
              THEN /\ RespondError(
                        IF endpoint = "youtube"
                        THEN ErrorResponse(endpoint,
                                 "No transcript segments were generated.")
                        ELSE HttpError(400, "No speech detected in the uploaded file. Please try a different file."))
                   /\ UNCHANGED chunkerVars
              ELSE /\ items' = its
                   /\ totalDuration' = TranscriptEndTime(its)
                   /\ pc' = "start"
                   /\ rpc' = "chunking"
                   /\ UNCHANGED <<chunks, currentStartIndex, chunkIndex,
                                  warned, httpStatus, httpError, httpSet>>
    /\ UNCHANGED endpoint
    /\ UNCHANGED aggVars
    /\ UNCHANGED orderVars
    /\ UNCHANGED summaryVars
    /\ UNCHANGED homeVars

\* a handler that hands an empty list to generateFlashcardsFromChunks
RouteGenerateNothing ==
    /\ rpc = "chunking"
    /\ pc = "done"
    /\ StartAggregate(0, language)
    /\ rpc' = "generating"
    /\ UNCHANGED <<endpoint, httpStatus, httpError, httpSet>>
    /\ UNCHANGED chunkerVars
    /\ UNCHANGED orderVars
    /\ UNCHANGED summaryVars
    /\ UNCHANGED homeVars

\* the chunks go to generateFlashcardsFromChunks, which the handler awaits
RouteGenerate ==
    /\ rpc = "chunking"
    /\ pc = "done"
    /\ StartAggregate(Len(chunks), language)
    /\ rpc' = "generating"
    /\ UNCHANGED <<endpoint, httpStatus, httpError, httpSet>>
    /\ UNCHANGED chunkerVars
    /\ UNCHANGED orderVars
    /\ UNCHANGED summaryVars
    /\ UNCHANGED homeVars

\* return NextResponse.json(flashcardSet); the upload handler first replaces
\* the metadata's source with the file's name
RouteRespond ==
    /\ rpc = "generating"
    /\ apc = "returned"
    /\ httpStatus' = 200
    /\ httpError' = ""
    /\ httpSet' =
          IF endpoint = "upload"
          THEN << [returned[1] EXCEPT !.metadata =
                      [totalChunks |-> returned[1].metadata.totalChunks,
                       successfulChunks |->
                           returned[1].metadata.successfulChunks,
                       fileName |-> "upload.mp3"]] >>
          ELSE returned
    /\ rpc' = "responded"
    /\ UNCHANGED endpoint
    /\ UNCHANGED aggVars
    /\ UNCHANGED chunkerVars
    /\ UNCHANGED orderVars
    /\ UNCHANGED summaryVars
    /\ UNCHANGED homeVars

\* generateFlashcardsFromChunks threw; the catch block answers
RouteCatch ==
    /\ rpc = "generating"
    /\ apc = "threw"
    /\ RespondError(ErrorResponse(endpoint, thrown))
    /\ UNCHANGED endpoint
    /\ UNCHANGED aggVars
    /\ UNCHANGED chunkerVars
    /\ UNCHANGED orderVars
    /\ UNCHANGED summaryVars
    /\ UNCHANGED homeVars

RouteNext ==
    \/ PostYoutube
    \/ PostUpload
    \/ TranscriptFails
    \/ TranscriptArrives
    \/ ReturnSingleChunk
    \/ EnterLoop
    \/ FinalChunk
    \/ BreakChunk
    \/ LoopExit
    \/ RouteGenerate
    \/ \E i \in 1..MaxRouteSegs : ChunkCallFails(i)
    \/ \E i \in 1..MaxRouteSegs : ChunkResponds(i)
    \/ AggregateResume
    \/ RouteRespond
    \/ RouteCatch

\* ------------------------------------------------------------------------
\* generateFlashcardsFromChunks with per-chunk outcomes that are fixed at the
\* call and settle in any order
\* ------------------------------------------------------------------------
OrderInit ==
    /\ responses = <<>>
    /\ outcomes = <<>>
    /\ inflight = {}

\* what the LLM can answer: nothing at all (the request fails), no content,
\* text that is not JSON, or an object, well-formed or not
OrderResponses ==
    { [kind |-> k, parsed |-> EmptyParsed] : k \in {"error", "none", "text"} }
    \cup { [kind |-> "json", parsed |-> o] :
           o \in { t \in TopicFamily : t.difficulty # "beginner" }
                 \cup InvalidFamily
                 \cup { [difficulty |-> "beginner",
                         flashcards |-> <<Card("1")>>] } }

\* the promise of one call: rejected by the request's failure or by one of
\* generateFlashcardsFromChunk's throws, else fulfilled
CallOutcome(resp, lang) ==
    IF resp.kind = "error" THEN Rejected("request failed")
    ELSE ChunkOutcome(resp, lang)

\* a record keeper that files outcomes in the order of their arrival
SettleSlotFirstPending(res, i) ==
    CHOOSE j \in 1..Len(res) :
        /\ res[j].status = "pending"
        /\ \A k \in 1..(j - 1) : res[k].status # "pending"

\* Promise.allSettled: the outcome of the i-th promise is element i of the
\* result array
SettleSlot(res, i) == i

\* a caller invokes generateFlashcardsFromChunks; every chunk's outcome is
\* decided but not yet known
CallAggregateFixed ==
    /\ apc = "idle"
    /\ \E n \in 0..MaxAggChunks, lang \in Languages :
          /\ StartAggregate(n, lang)
          /\ \E rs \in [1..n -> OrderResponses] :
                /\ responses' = rs
                /\ outcomes' = [i \in 1..n |-> CallOutcome(rs[i], lang)]
          /\ inflight' = 1..n
    /\ UNCHANGED chunkerVars
    /\ UNCHANGED routeVars
    /\ UNCHANGED summaryVars
    /\ UNCHANGED homeVars

\* chunk i's call settles
ChunkSettles(i) ==
    /\ apc = "awaiting"
    /\ i \in inflight
    /\ results' = [results EXCEPT ![SettleSlot(results, i)] = outcomes[i]]
    /\ inflight' = inflight \ {i}
    /\ UNCHANGED <<numChunks, language, calls, apc, returned, thrown,
                   responses, outcomes>>
    /\ UNCHANGED chunkerVars
    /\ UNCHANGED routeVars
    /\ UNCHANGED summaryVars
    /\ UNCHANGED homeVars

OrderNext ==
    \/ CallAggregateFixed
    \/ \E i \in 1..MaxAggChunks : ChunkSettles(i)
    \/ AggregateResume

\* ------------------------------------------------------------------------
\* The route handler POST /api/summarize
\* ------------------------------------------------------------------------
SummaryInit ==
    /\ videoDuration = 0
    /\ sentTranscript = ""

\* video durations in seconds, on both sides of 40 minutes and of 2 hours
VideoDurations == {600, 1200, 2400, 2401, 3600, 5000, 7200, 7201, 9000}

\* Math.round(seconds / 60)
RoundedMinutes(seconds) == (seconds + 30) \div 60

\* the message of fetchTranscript's duration error
DurationError(seconds) ==
    "Video duration (" \o NumToString(RoundedMinutes(seconds))
    \o " minutes) exceeds the 2-hour limit."

\* `videoInfo.duration > MAX_DURATION_SECONDS`
ExceedsLimit(seconds) == seconds > MAX_DURATION_SECONDS

\* the catch block of POST /api/summarize, its rules in source order
SummarizeErrorResponse(errorMessage) ==
    IF \/ Includes(errorMessage, "40-minute limit")
       \/ Includes(errorMessage, "exceeds")
    THEN HttpError(400, "Only videos up to 40 minutes are supported.")
    ELSE IF \/ Includes(errorMessage, "Invalid YouTube URL")
            \/ Includes(errorMessage, "Could not retrieve video")
            \/ Includes(errorMessage, "Video unavailable")
    THEN HttpError(400, "Could not access this video. Please check the URL.")
    ELSE IF \/ Includes(errorMessage, "Failed to download")
            \/ Includes(errorMessage, "No transcript segments")
    THEN HttpError(500, "Failed to process video audio. Please try again.")
    ELSE IF Includes(errorMessage, "OPENAI_API_KEY")
    THEN HttpError(500, "OpenAI API key is not configured.")
    ELSE HttpError(500, "Something went wrong while summarizing the video.")

\* what fetchTranscript throws before it knows the duration
VideoInfoErrors ==
    { "Invalid YouTube URL.", "Could not retrieve video information.",
      "ERROR: [youtube] Video unavailable" }

\* what fetchTranscript throws after the duration test
DownloadErrors ==
    { "Failed to locate downloaded audio file.",
      "Downloaded audio file is empty.",
      "No transcript segments were generated.",
      "OPENAI_API_KEY is not configured." }

\* what generateSummary throws once the model has answered
SummaryErrors ==
    { "Failed to parse LLM response.",
      "LLM response did not match expected format.",
      "request failed" }

\* POST /api/summarize up to `await fetchTranscript(url, language)`
PostSummarize ==
    /\ rpc = "idle"
    /\ endpoint' = "summarize"
    /\ language' \in Languages
    /\ \/ \E error \in YoutubeRejections : RespondError(HttpError(400, error))
       \/ /\ rpc' = "video-info"
          /\ UNCHANGED <<httpStatus, httpError, httpSet>>
    /\ UNCHANGED <<numChunks, calls, results, apc, returned, thrown>>
    /\ UNCHANGED chunkerVars
    /\ UNCHANGED orderVars
    /\ UNCHANGED summaryVars
    /\ UNCHANGED homeVars

\* fetchTranscript up to the duration test: no video id or no video
\* information, a video that exceeds the limit, or on to the download
VideoInfoArrives ==
    /\ rpc = "video-info"
    /\ \/ /\ \E errorMessage \in VideoInfoErrors :
                RespondError(SummarizeErrorResponse(errorMessage))
          /\ UNCHANGED videoDuration
       \/ \E seconds \in VideoDurations :
             /\ videoDuration' = seconds
             /\ IF ExceedsLimit(seconds)
                THEN RespondError(SummarizeErrorResponse(DurationError(seconds)))
                ELSE /\ rpc' = "downloading"
                     /\ UNCHANGED <<httpStatus, httpError, httpSet>>
    /\ UNCHANGED <<endpoint, sentTranscript>>
    /\ UNCHANGED aggVars
    /\ UNCHANGED chunkerVars
    /\ UNCHANGED orderVars
    /\ UNCHANGED homeVars

\* the rest of fetchTranscript and the call of generateSummary: a throw on
\* the way, or the joined transcript goes to the model
TranscriptSummarized ==
    /\ rpc = "downloading"
    /\ \/ /\ \E errorMessage \in DownloadErrors :
                RespondError(SummarizeErrorResponse(errorMessage))
          /\ UNCHANGED sentTranscript
       \/ /\ \E n \in 1..MaxRouteSegs, s \in StrideVals, d \in LongDurVals :
                sentTranscript' = JoinText(LongInput(n, s, d))
          /\ rpc' = "summarizing"
          /\ UNCHANGED <<httpStatus, httpError, httpSet>>
    /\ UNCHANGED <<endpoint, videoDuration>>
    /\ UNCHANGED aggVars
    /\ UNCHANGED chunkerVars
    /\ UNCHANGED orderVars
    /\ UNCHANGED homeVars

\* the model answers: generateSummary throws, or the summary is the response
SummaryArrives ==
    /\ rpc = "summarizing"
    /\ \/ \E errorMessage \in SummaryErrors :
             RespondError(SummarizeErrorResponse(errorMessage))
       \/ /\ httpStatus' = 200
          /\ httpError' = ""
          /\ httpSet' = << [paragraph |-> "p", topics |-> <<>>] >>
          /\ rpc' = "responded"
    /\ UNCHANGED endpoint
    /\ UNCHANGED aggVars
    /\ UNCHANGED chunkerVars
    /\ UNCHANGED orderVars
    /\ UNCHANGED summaryVars
    /\ UNCHANGED homeVars

SummarizeNext ==
    \/ PostSummarize
    \/ VideoInfoArrives
    \/ TranscriptSummarized
    \/ SummaryArrives

\* ------------------------------------------------------------------------
\* The home page: handleSubmit, handleUrlSubmit, handleUploadSubmit and the
\* timers they start
\* ------------------------------------------------------------------------
HomeInit ==
    /\ mode = "url"
    /\ url = ""
    /\ selectedFile = "none"
    /\ loading = FALSE
    /\ loadingMessage = ""
    /\ homeError = <<>>
    /\ timers = <<>>
    /\ hpc = "idle"
    /\ pathname = "/"

\* what the link field can hold: nothing, a text isValidYoutubeUrl refuses,
\* a link it accepts
UrlTexts == { "", "not a link", "https://youtu.be/dQw4w9WgXcQ" }

isValidYoutubeUrl(text) == text = "https://youtu.be/dQw4w9WgXcQ"

\* the setTimeout calls of handleUrlSubmit, by delay
UrlTimers ==
    << "Analyzing content and generating flashcards...",
       "Processing video content... This may take a moment for longer videos." >>

\* the setTimeout calls of handleUploadSubmit, by delay
UploadTimers(isVideo) ==
    (IF isVideo THEN << "Extracting audio from video..." >> ELSE <<>>)
    \o << "Transcribing audio...", "Generating flashcards...",
          "Still processing... Large files may take a few minutes." >>

\* the error fields the two endpoints answer with, <<>> for a body without
ServerErrors(m) ==
    { <<>> }
    \cup (IF m = "url"
          THEN { <<YoutubeErrorResponse(e).error>> : e \in YoutubeErrors }
               \cup { <<r>> : r \in YoutubeRejections }
          ELSE { <<UploadErrorResponse(e).error>> : e \in UploadErrors }
               \cup { <<r>> : r \in UploadRejections })

\* `data.error ?? fallback`
ErrorOrDefault(dataError, fallback) ==
    IF dataError = <<>> THEN <<fallback>> ELSE dataError

\* the catch block of the handler of mode m
CatchMessage(m) ==
    IF m = "url"
    THEN "Something went wrong. Please try again."
    ELSE "Something went wrong while processing your file. Please try again."

\* the finally block of both submit handlers
FinallyBlock ==
    /\ loading' = FALSE
    /\ loadingMessage' = ""
    /\ hpc' = "finished"

\* the mode buttons, disabled while loading
handleModeChange ==
    /\ ~loading
    /\ \E newMode \in { "url", "upload" } : mode' = newMode
    /\ homeError' = <<>>
    /\ UNCHANGED <<url, selectedFile, loading, loadingMessage, timers, hpc,
                   pathname>>
    /\ UNCHANGED chunkerVars
    /\ UNCHANGED aggVars
    /\ UNCHANGED routeVars
    /\ UNCHANGED orderVars
    /\ UNCHANGED summaryVars

\* typing in the link field, disabled while loading
setUrl ==
    /\ ~loading
    /\ \E text \in UrlTexts : url' = text
    /\ UNCHANGED <<mode, selectedFile, loading, loadingMessage, homeError,
                   timers, hpc, pathname>>
    /\ UNCHANGED chunkerVars
    /\ UNCHANGED aggVars
    /\ UNCHANGED routeVars
    /\ UNCHANGED orderVars
    /\ UNCHANGED summaryVars

\* the file input, disabled while loading: no file, a file over
\* MAX_FILE_SIZE, an audio or a video file
handleFileSelect ==
    /\ ~loading
    /\ \/ /\ selectedFile' = "none"
          /\ homeError' \in { <<>>, <<"File is too large. Maximum allowed size is 200 MB.">> }
       \/ /\ selectedFile' \in { "audio", "video" }
          /\ homeError' = <<>>
    /\ UNCHANGED <<mode, url, loading, loadingMessage, timers, hpc, pathname>>
    /\ UNCHANGED chunkerVars
    /\ UNCHANGED aggVars
    /\ UNCHANGED routeVars
    /\ UNCHANGED orderVars
    /\ UNCHANGED summaryVars

\* handleSubmit in url mode, up to `await fetch("/api/flashcards", ...)`
handleUrlSubmit ==
    /\ hpc = "idle"
    /\ mode = "url"
    /\ IF url = ""
       THEN /\ homeError' = <<"Paste a YouTube link to get started.">>
            /\ UNCHANGED <<loading, loadingMessage, timers, hpc>>
       ELSE IF ~isValidYoutubeUrl(url)
       THEN /\ homeError' = <<"This doesn't look like a valid YouTube link.">>
            /\ UNCHANGED <<loading, loadingMessage, timers, hpc>>
       ELSE /\ homeError' = <<>>
            /\ loading' = TRUE
            /\ loadingMessage' = "Fetching video transcript..."
            /\ timers' = timers \o UrlTimers
            /\ hpc' = "fetching"
    /\ UNCHANGED <<mode, url, selectedFile, pathname>>
    /\ UNCHANGED chunkerVars
    /\ UNCHANGED aggVars
    /\ UNCHANGED routeVars
    /\ UNCHANGED orderVars
    /\ UNCHANGED summaryVars

\* handleSubmit in upload mode, up to `await fetch("/api/flashcards/upload")`
handleUploadSubmit ==
    /\ hpc = "idle"
    /\ mode = "upload"
    /\ IF selectedFile = "none"
       THEN /\ homeError' = <<"Please select an audio or video file.">>
            /\ UNCHANGED <<loading, loadingMessage, timers, hpc>>
       ELSE /\ homeError' = <<>>
            /\ loading' = TRUE
            /\ loadingMessage' = "Uploading file..."
            /\ timers' = timers \o UploadTimers(selectedFile = "video")
            /\ hpc' = "fetching"
    /\ UNCHANGED <<mode, url, selectedFile, pathname>>
    /\ UNCHANGED chunkerVars
    /\ UNCHANGED aggVars
    /\ UNCHANGED routeVars
    /\ UNCHANGED orderVars
    /\ UNCHANGED summaryVars

\* the earliest pending timer fires: setLoadingMessage(...)
TimerFires ==
    /\ timers # <<>>
    /\ loadingMessage' = Head(timers)
    /\ timers' = Tail(timers)
    /\ UNCHANGED <<mode, url, selectedFile, loading, homeError, hpc, pathname>>
    /\ UNCHANGED chunkerVars
    /\ UNCHANGED aggVars
    /\ UNCHANGED routeVars
    /\ UNCHANGED orderVars
    /\ UNCHANGED summaryVars

\* fetch resolves with a response: the clearTimeout calls, then
\* `await response.json()`
FetchResolves ==
    /\ hpc = "fetching"
    /\ timers' = <<>>
    /\ hpc' = "parsing"
    /\ UNCHANGED <<mode, url, selectedFile, loading, loadingMessage, homeError,
                   pathname>>
    /\ UNCHANGED chunkerVars
    /\ UNCHANGED aggVars
    /\ UNCHANGED routeVars
    /\ UNCHANGED orderVars
    /\ UNCHANGED summaryVars

\* fetch rejects (the network request failed): catch, then finally
FetchRejects ==
    /\ hpc = "fetching"
    /\ homeError' = <<CatchMessage(mode)>>
    /\ FinallyBlock
    /\ UNCHANGED <<mode, url, selectedFile, timers, pathname>>
    /\ UNCHANGED chunkerVars
    /\ UNCHANGED aggVars
    /\ UNCHANGED routeVars
    /\ UNCHANGED orderVars
    /\ UNCHANGED summaryVars

\* response.json() settles: a body that does not parse, an error response,
\* or the flashcard set and the way to the study page; then finally
JsonSettles ==
    /\ hpc = "parsing"
    /\ \/ /\ homeError' = <<CatchMessage(mode)>>
          /\ UNCHANGED pathname
       \/ /\ \E dataError \in ServerErrors(mode) :
                homeError' = ErrorOrDefault(dataError,
                                 IF mode = "url"
                                 THEN "Failed to generate flashcards."
                                 ELSE "Failed to process file.")
          /\ UNCHANGED pathname
       \/ /\ pathname' = "/study"
          /\ UNCHANGED homeError
    /\ FinallyBlock
    /\ UNCHANGED <<mode, url, selectedFile, timers>>
    /\ UNCHANGED chunkerVars
    /\ UNCHANGED aggVars
    /\ UNCHANGED routeVars
    /\ UNCHANGED orderVars
    /\ UNCHANGED summaryVars

HomeNext ==
    \/ handleModeChange
    \/ setUrl
    \/ handleFileSelect
    \/ handleUrlSubmit
    \/ handleUploadSubmit
    \/ TimerFires
    \/ FetchResolves
    \/ FetchRejects
    \/ JsonSettles

\* ------------------------------------------------------------------------
\* Specifications
\* ------------------------------------------------------------------------
Init == ChunkerInit /\ AggInit /\ RouteInit /\ OrderInit /\ SummaryInit
        /\ HomeInit

Next == ChunkerNext

\* splitTranscriptIntoChunks on its own
Spec == Init /\ [][Next]_vars

\* generateFlashcardsFromChunks on its own
AggSpec == Init /\ [][AggNext]_vars

\* generateFlashcardsFromChunks with many chunks
LongAggSpec == Init /\ [][LongAggNext]_vars

\* a request through either route handler
RouteSpec == Init /\ [][RouteNext]_vars

\* generateFlashcardsFromChunks under every order of settling
OrderSpec == Init /\ [][OrderNext]_vars

\* a request through the summarize handler
SummarizeSpec == Init /\ [][SummarizeNext]_vars

\* one submission on the home page
HomeSpec == Init /\ [][HomeNext]_vars

\* ------------------------------------------------------------------------
\* Properties of the chunker
\* ------------------------------------------------------------------------
RECURSIVE ConcatItems(_)
ConcatItems(cs) ==
    IF Len(cs) = 0 THEN <<>> ELSE cs[1].items \o ConcatItems(Tail(cs))

\* start[i] + duration[i] <= start[i+1] for all consecutive segments
GapConsistent(its) ==
    \A i \in 1..(Len(its) - 1) : ItemEndTime(its[i]) <= its[i + 1].start

\* C1: partition completeness. For a non-empty input, the items of the
\* returned chunks, concatenated in output order, are exactly the input
\* sequence; while the loop runs, the chunks pushed so far are exactly the
\* input before currentStartIndex.
C1_PartitionComplete ==
    /\ (pc = "done" /\ Len(items) > 0) => ConcatItems(chunks) = items
    /\ pc = "loop" =>
          /\ currentStartIndex <= Len(items)
          /\ ConcatItems(chunks) = Slice(items, 0, currentStartIndex)

\* the safety valve ran and left a last chunk of several remaining items
C1_Witness ==
    /\ pc = "done"
    /\ warned
    /\ Len(chunks) = MAX_CHUNKS + 2
    /\ Len(chunks[Len(chunks)].items) >= 2
    /\ ConcatItems(chunks) = items

\* C7: a transcript whose totalDuration is at most target + tolerance comes
\* back as exactly one chunk that holds all segments, whatever the segments'
\* own times are.
C7_ShortTranscriptSingleChunk ==
    (/\ pc = "done"
     /\ Len(items) > 0
     /\ totalDuration <= TARGET_CHUNK_DURATION + TOLERANCE_WINDOW)
    => /\ Len(chunks) = 1
       /\ chunks[1].items = items

\* totalDuration is exactly target + tolerance and the segments run far
\* past it
C7_Witness ==
    /\ pc = "done"
    /\ totalDuration = TARGET_CHUNK_DURATION + TOLERANCE_WINDOW
    /\ Len(items) >= 2
    /\ TranscriptEndTime(items) > 2 * totalDuration
    /\ Len(chunks) = 1
    /\ chunks[1].items = items

\* C10: the chunker terminates: every loop iteration either stops the loop
\* or moves the start index forward by at least one segment, and the start
\* index never passes the end of the input, so items.length minus the start
\* index is a variant of the loop.
C10_Terminates ==
    [][pc = "loop" =>
         \/ pc' = "done"
         \/ /\ currentStartIndex' > currentStartIndex
            /\ currentStartIndex' <= Len(items)]_vars

\* terminated on out-of-order input with a zero-duration segment, after at
\* least one break
C10_Witness ==
    /\ pc = "done"
    /\ Len(chunks) >= 2
    /\ ~GapConsistent(items)
    /\ \E i \in 1..Len(items) : items[i].duration = 0

\* the input of the spec's example: ordered, gap-consistent segments that
\* start at 0 and end at 2500, with totalDuration = 2500
IsExampleInput ==
    /\ Len(items) > 0
    /\ GapConsistent(items)
    /\ items[1].start = 0
    /\ TranscriptEndTime(items) = 2500
    /\ totalDuration = 2500

InBand(t, startTime) ==
    /\ t >= startTime + TARGET_CHUNK_DURATION - TOLERANCE_WINDOW
    /\ t <= startTime + TARGET_CHUNK_DURATION + TOLERANCE_WINDOW

\* some segment at 0-based index >= from, other than the last one, ends
\* inside the tolerance window around startTime + target
HasCandidate(its, from, startTime) ==
    \E i \in from..(Len(its) - 2) : InBand(ItemEndTime(At(its, i)), startTime)

\* C8 as stated: every example input gives exactly 2 chunks, the first
\* ending inside [1080, 1320], the second holding the rest up to 2500.
C8_ExampleTwoChunks ==
    (pc = "done" /\ IsExampleInput)
    => /\ Len(chunks) = 2
       /\ InBand(chunks[1].endTime, 0)
       /\ chunks[2].endTime = 2500

\* C8, amended: when some segment other than the last ends inside
\* [1080, 1320], the first chunk ends at a segment end inside [1080, 1320],
\* the last chunk ends at 2500 and there are 2 or 3 chunks, exactly 2
\* whenever the second chunk starts at or after 1180 (its target end is
\* then within the tolerance of the transcript's end).
C8_ExampleTwoOrThreeChunks ==
    (pc = "done" /\ IsExampleInput /\ HasCandidate(items, 0, 0))
    => /\ Len(chunks) \in {2, 3}
       /\ InBand(chunks[1].endTime, 0)
       /\ \E i \in 1..Len(chunks[1].items) :
             ItemEndTime(chunks[1].items[i]) = chunks[1].endTime
       /\ chunks[Len(chunks)].endTime = 2500
       /\ (chunks[2].startTime + TARGET_CHUNK_DURATION
             >= 2500 - TOLERANCE_WINDOW) => Len(chunks) = 2

\* an example input that is split into three chunks
C8_Witness ==
    /\ pc = "done"
    /\ IsExampleInput
    /\ HasCandidate(items, 0, 0)
    /\ Len(chunks) = 3
    /\ InBand(chunks[1].endTime, 0)

\* 0-based index in items of the first item of the k-th chunk (k from 1)
ChunkStartIndex(k) == Len(ConcatItems(SubSeq(chunks, 1, k - 1)))

\* C9 as stated: on ordered, gap-consistent input that is split into several
\* chunks, every chunk but the last ends inside the tolerance band around
\* its start + target.
C9_AllButLastInBand ==
    (pc = "done" /\ GapConsistent(items) /\ Len(chunks) >= 2)
    => \A k \in 1..(Len(chunks) - 1) :
          InBand(chunks[k].endTime, chunks[k].startTime)

\* C9, amended: on ordered, gap-consistent input that is split into several
\* chunks, a chunk other than the last ends inside the tolerance band
\* whenever some segment from its start on, other than the transcript's
\* last, ends inside the band; else the break is the fallback's closest
\* segment end, which may lie outside.
C9_CandidateBreakInBand ==
    (pc = "done" /\ GapConsistent(items) /\ Len(chunks) >= 2)
    => \A k \in 1..(Len(chunks) - 1) :
          HasCandidate(items, ChunkStartIndex(k), chunks[k].startTime)
          => InBand(chunks[k].endTime, chunks[k].startTime)

\* two chunks in a row broke at in-window candidates, neither at the target
C9_Witness ==
    /\ pc = "done"
    /\ GapConsistent(items)
    /\ Len(chunks) >= 3
    /\ \A k \in 1..2 :
          /\ HasCandidate(items, ChunkStartIndex(k), chunks[k].startTime)
          /\ InBand(chunks[k].endTime, chunks[k].startTime)
          /\ chunks[k].endTime # chunks[k].startTime + TARGET_CHUNK_DURATION

\* ------------------------------------------------------------------------
\* Properties of the aggregator
\* ------------------------------------------------------------------------
IsFulfilled(i) == results[i].status = "fulfilled"

NumFulfilled == Cardinality({ i \in 1..Len(results) : IsFulfilled(i) })

\* 1-based position of chunk i among the successful chunks
Rank(i) == Cardinality({ j \in 1..i : IsFulfilled(j) })

\* for every item of every successful chunk from chunk i on, in chunk order:
\* the chunk (1-based) and the item's position in that chunk's response
RECURSIVE OriginsFrom(_)
OriginsFrom(i) ==
    IF i > Len(results) THEN <<>>
    ELSE (IF IsFulfilled(i)
          THEN [p \in 1..Len(results[i].value[1].flashcards) |->
                    [chunk |-> i, pos |-> p]]
          ELSE <<>>)
         \o OriginsFrom(i + 1)

\* C2: for a non-empty chunk sequence the function returns a merged artifact
\* exactly when some per-chunk call succeeded, and throws exactly when every
\* call failed, then with the total-failure message (which only a non-empty
\* chunk sequence gets) and without an artifact.
C2_ReturnsIffSomeSuccess ==
    (apc \in {"returned", "threw"} /\ numChunks > 0)
    => /\ (apc = "returned") <=> (\E i \in 1..numChunks : IsFulfilled(i))
       /\ (apc = "threw") <=>
             (\A i \in 1..numChunks : results[i].status = "rejected")
       /\ apc = "returned" => (Len(returned) = 1 /\ thrown = "")
       /\ apc = "threw" =>
             /\ thrown = "All chunks failed to generate flashcards"
             /\ returned = <<>>

\* the function returned although all calls but one failed
C2_Witness ==
    /\ apc = "returned"
    /\ numChunks = 3
    /\ NumFulfilled = 1
    /\ Len(returned) = 1

\* C3: when some but not all calls fail, the merged flashcards are the
\* items of the successful chunks, in chunk order and in each chunk's own
\* order, each id prefixed with the chunk's 1-based position among the
\* successful chunks; totalChunks is the number of chunks passed in and
\* successfulChunks the number of successful calls.
C3_PartialSuccess ==
    (/\ apc = "returned"
     /\ \E i \in 1..numChunks : results[i].status = "rejected")
    => LET artifact == returned[1]
           origins == OriginsFrom(1)
       IN  /\ artifact.metadata.totalChunks = numChunks
           /\ artifact.metadata.successfulChunks = NumFulfilled
           /\ Len(artifact.flashcards) = Len(origins)
           /\ \A m \in 1..Len(origins) :
                LET card == results[origins[m].chunk].value[1]
                                .flashcards[origins[m].pos]
                    merged == artifact.flashcards[m]
                IN  /\ merged.question = card.question
                    /\ merged.answer = card.answer
                    /\ merged.id = NumToString(Rank(origins[m].chunk))
                                     \o "-" \o card.id

\* 3 chunks, chunk 2 failed: chunk 1's item is "1-...", chunk 3's are "2-..."
C3_Witness ==
    /\ apc = "returned"
    /\ numChunks = 3
    /\ results[2].status = "rejected"
    /\ IsFulfilled(1)
    /\ IsFulfilled(3)
    /\ returned[1].metadata.totalChunks = 3
    /\ returned[1].metadata.successfulChunks = 2
    /\ [m \in 1..Len(returned[1].flashcards) |->
            returned[1].flashcards[m].id] = <<"1-2", "2-2", "2-1">>

\* C4: the function neither returns nor throws the total failure while a
\* per-chunk call is pending, and a call that is rejected while others are
\* pending changes neither the function's position nor any other call.
C4_SettledNotRaced ==
    [][/\ (apc' \in {"returned", "threw"} /\ numChunks' > 0)
          => \A i \in 1..Len(results') : results'[i].status # "pending"
       /\ \A i \in 1..Len(results) :
            (/\ Len(results') = Len(results)
             /\ results[i].status = "pending"
             /\ results'[i].status = "rejected")
            => /\ apc' = apc
               /\ returned' = returned
               /\ thrown' = thrown
               /\ \A j \in 1..Len(results) :
                     j # i => results'[j] = results[j]]_vars

\* one call has failed, the others are pending, the function still waits
C4_Witness ==
    /\ apc = "awaiting"
    /\ numChunks = 3
    /\ results[1].status = "rejected"
    /\ results[2].status = "pending"
    /\ results[3].status = "pending"

\* C5: the ids of a merged artifact are pairwise distinct.
C5_IdsPairwiseDistinct ==
    apc = "returned"
    => \A p \in 1..Len(returned[1].flashcards) :
         \A q \in 1..Len(returned[1].flashcards) :
            p # q => returned[1].flashcards[p].id # returned[1].flashcards[q].id

\* C6: two merged flashcards that come from different successful chunks
\* never have the same id.
C6_CrossChunkIdsDiffer ==
    apc = "returned"
    => LET origins == OriginsFrom(1)
           cards == returned[1].flashcards
       IN  /\ Len(cards) = Len(origins)
           /\ \A p \in 1..Len(cards) : \A q \in 1..Len(cards) :
                origins[p].chunk # origins[q].chunk => cards[p].id # cards[q].id

\* chunk 1's item "1-2" and chunk 11's item "2" were merged
C6_Witness ==
    /\ apc = "returned"
    /\ results[1].value[1].flashcards[1].id = "1-2"
    /\ results[11].value[1].flashcards[1].id = "2"
    /\ returned[1].flashcards[1].id = "1-1-2"
    /\ returned[1].flashcards[11].id = "11-2"

\* ------------------------------------------------------------------------
\* More properties of the chunker
\* ------------------------------------------------------------------------
\* C11: no output has more than maxChunks + 1 = 21 chunks: at most 20 from
\* the break-point search and at most one holding the remaining segments.
C11_AtMost21Chunks ==
    pc = "done"
    => /\ Len(chunks) <= MAX_CHUNKS + 1
       /\ warned => Len(chunks) - 1 <= MAX_CHUNKS

\* the texts of its, each but the first after one space
RECURSIVE SpaceSeparated(_)
SpaceSeparated(its) ==
    IF Len(its) = 0 THEN ""
    ELSE IF Len(its) = 1 THEN its[1].text
    ELSE SpaceSeparated(SubSeq(its, 1, Len(its) - 1)) \o " "
         \o its[Len(its)].text

\* C12: on every path, every chunk's index is its 0-based position in the
\* output, its startTime the first item's start, its endTime the last item's
\* start + duration and its text the items' texts joined with single spaces.
C12_ChunkFieldsConsistent ==
    pc \in {"loop", "done"}
    => \A k \in 1..Len(chunks) :
          LET c == chunks[k]
          IN  /\ c.index = k - 1
              /\ Len(c.items) >= 1
              /\ c.startTime = c.items[1].start
              /\ c.endTime = c.items[Len(c.items)].start
                               + c.items[Len(c.items)].duration
              /\ c.text = SpaceSeparated(c.items)

\* a loop chunk followed by a final chunk, both of several items
C12_Witness ==
    /\ pc = "done"
    /\ ~warned
    /\ Len(chunks) = 2
    /\ Len(chunks[1].items) >= 2
    /\ Len(chunks[2].items) >= 2
    /\ chunks[2].index = 1
    /\ chunks[2].text = SpaceSeparated(chunks[2].items)

\* C13: for ordered, gap-consistent input consecutive chunks do not overlap
\* and start times do not decrease along the output.
C13_ChunksInTimeOrder ==
    (pc = "done" /\ GapConsistent(items))
    => \A k \in 1..(Len(chunks) - 1) :
          /\ chunks[k].endTime <= chunks[k + 1].startTime
          /\ chunks[k].startTime <= chunks[k + 1].startTime

\* three chunks of a gap-consistent input, silence between the first two
C13_Witness ==
    /\ pc = "done"
    /\ GapConsistent(items)
    /\ Len(chunks) = 3
    /\ chunks[1].endTime < chunks[2].startTime
    /\ chunks[2].endTime <= chunks[3].startTime
    /\ chunks[1].endTime > chunks[1].startTime

\* C14: an input of n <= 1 segments comes back as exactly n chunks.
C14_ZeroOrOneSegment ==
    (pc = "done" /\ Len(items) <= 1) => Len(chunks) = Len(items)

\* one segment longer than target + tolerance, totalDuration above it too
C14_Witness ==
    /\ pc = "done"
    /\ Len(items) = 1
    /\ items[1].duration > TARGET_CHUNK_DURATION + TOLERANCE_WINDOW
    /\ totalDuration > TARGET_CHUNK_DURATION + TOLERANCE_WINDOW
    /\ Len(chunks) = 1
    /\ chunks[1].items = items

\* ------------------------------------------------------------------------
\* More properties of the aggregator
\* ------------------------------------------------------------------------
\* C15: called with zero chunks, generateFlashcardsFromChunks fails at once
\* with 'No transcript chunks provided': no per-chunk call is made, nothing
\* is awaited and nothing is returned.
C15_NoChunksProvided ==
    /\ (apc # "idle" /\ numChunks = 0)
       => /\ apc = "threw"
          /\ thrown = "No transcript chunks provided"
          /\ calls = <<>>
          /\ results = <<>>
          /\ returned = <<>>
    /\ thrown = "No transcript chunks provided" => numChunks = 0

C15_Witness ==
    /\ apc = "threw"
    /\ numChunks = 0
    /\ thrown = "No transcript chunks provided"

\* the first fulfilled call, in chunk order
FirstFulfilled ==
    CHOOSE i \in 1..Len(results) :
        IsFulfilled(i) /\ \A j \in 1..(i - 1) : ~IsFulfilled(j)

\* C16: with one successful chunk the merged topic is that chunk's topic;
\* with k >= 2 it is the first successful chunk's topic followed by the
\* suffix " (e mais <k - 1> tópicos)".
C16_MergedTopic ==
    apc = "returned"
    => LET first == results[FirstFulfilled].value[1].topic
           k == NumFulfilled
       IN  /\ k >= 1
           /\ k = 1 => returned[1].topic = first
           /\ k >= 2 => returned[1].topic =
                           first \o " (e mais " \o NumToString(k - 1)
                           \o " tópicos)"

\* chunk 1 failed, chunks 2 and 3 succeeded with different topics
C16_Witness ==
    /\ apc = "returned"
    /\ numChunks = 3
    /\ ~IsFulfilled(1) /\ IsFulfilled(2) /\ IsFulfilled(3)
    /\ results[2].value[1].topic = "B"
    /\ results[3].value[1].topic = "A"
    /\ returned[1].topic = "B (e mais 1 tópicos)"

\* the successful chunks whose difficulty is tier t
ChunksOfTier(t) ==
    { i \in 1..Len(results) :
        IsFulfilled(i) /\ results[i].value[1].difficulty = t }

\* tier t occurs before tier u does, in chunk order
OccursFirst(t, u) ==
    \E i \in ChunksOfTier(t) : \A j \in ChunksOfTier(u) : i < j

\* C17: the merged difficulty is a tier of maximal count among the
\* successful chunks, and among the tiers of maximal count the one that
\* occurs first in chunk order.
C17_MergedDifficulty ==
    apc = "returned"
    => LET d == returned[1].difficulty
       IN  /\ ChunksOfTier(d) # {}
           /\ \A t \in Difficulties :
                 /\ Cardinality(ChunksOfTier(t)) <= Cardinality(ChunksOfTier(d))
                 /\ (t # d /\ Cardinality(ChunksOfTier(t))
                                = Cardinality(ChunksOfTier(d)))
                    => OccursFirst(d, t)

\* a failed chunk, then two tiers with one chunk each: the earlier one wins
C17_Witness ==
    /\ apc = "returned"
    /\ numChunks = 3
    /\ ~IsFulfilled(1) /\ IsFulfilled(2) /\ IsFulfilled(3)
    /\ results[2].value[1].difficulty = "intermediate"
    /\ results[3].value[1].difficulty = "advanced"
    /\ returned[1].difficulty = "intermediate"

\* ------------------------------------------------------------------------
\* Properties of the break-point search
\* ------------------------------------------------------------------------
\* everything below speaks of 0-based indices into items
EndOf(i) == items[i + 1].start + items[i + 1].duration

\* the silence between segment i and the next one (negative on overlap)
GapAfter(i) == items[i + 2].start - EndOf(i)

DistanceTo(i, targetEndTime) ==
    IF EndOf(i) >= targetEndTime THEN EndOf(i) - targetEndTime
    ELSE targetEndTime - EndOf(i)

\* the segments from index from on, the transcript's last one excepted, that
\* end inside the tolerance window around targetEndTime
WindowSegments(from, targetEndTime) ==
    { i \in from..(Len(items) - 2) :
        /\ EndOf(i) >= targetEndTime - TOLERANCE_WINDOW
        /\ EndOf(i) <= targetEndTime + TOLERANCE_WINDOW }

\* those of them that no segment ending after the window comes before
ReachedWindowSegments(from, targetEndTime) ==
    { i \in WindowSegments(from, targetEndTime) :
        \A j \in from..(i - 1) : EndOf(j) <= targetEndTime + TOLERANCE_WINDOW }

\* candidate c is preferred to candidate b under (a), (b), (c)
Beats(c, b, targetEndTime) ==
    LET cBig == GapAfter(c) >= MIN_GAP_FOR_BREAK
        bBig == GapAfter(b) >= MIN_GAP_FOR_BREAK
    IN  \/ cBig /\ ~bBig
        \/ cBig = bBig /\ GapAfter(c) > GapAfter(b)
        \/ /\ cBig = bBig
           /\ GapAfter(c) = GapAfter(b)
           /\ DistanceTo(c, targetEndTime) < DistanceTo(b, targetEndTime)

\* the break is in cands and no member of cands is preferred to it
BestOf(cands, breakIndex, targetEndTime) ==
    /\ breakIndex \in cands
    /\ \A c \in cands : ~Beats(c, breakIndex, targetEndTime)

\* a step of the loop that breaks a chunk off
IsBreakStep == pc = "loop" /\ chunkIndex' = chunkIndex + 1

TargetOfStep == items[currentStartIndex + 1].start + TARGET_CHUNK_DURATION

\* C19 as stated: whenever some segment from the start index on, other than
\* the last, ends inside the window, the break is the best of all such
\* segments.
C19_BestWindowSegment ==
    [][ (IsBreakStep /\ WindowSegments(currentStartIndex, TargetOfStep) # {})
        => BestOf(WindowSegments(currentStartIndex, TargetOfStep),
                  currentStartIndex' - 1, TargetOfStep) ]_vars

\* C19, amended: the candidates are the in-window segments that the scan
\* reaches, i.e. those not preceded, from the start index on, by a segment
\* ending after the window; when there is one, the break is the best of them
\* under (a), (b), (c).  On input whose end times never decrease these are
\* all the in-window segments.
C19_BestReachedCandidate ==
    [][ (IsBreakStep
         /\ ReachedWindowSegments(currentStartIndex, TargetOfStep) # {})
        => BestOf(ReachedWindowSegments(currentStartIndex, TargetOfStep),
                  currentStartIndex' - 1, TargetOfStep) ]_vars

\* the first chunk broke at the only candidate with a gap >= 3s, although
\* another candidate ends closer to the target
C19_Witness ==
    /\ pc \in {"loop", "done"}
    /\ Len(chunks) >= 2
    /\ GapConsistent(items)
    /\ LET target == items[1].start + TARGET_CHUNK_DURATION
           cands == ReachedWindowSegments(0, target)
           b == Len(chunks[1].items) - 1
       IN  /\ b \in cands
           /\ GapAfter(b) >= MIN_GAP_FOR_BREAK
           /\ \A c \in cands \ {b} : GapAfter(c) < MIN_GAP_FOR_BREAK
           /\ \E c \in cands : DistanceTo(c, target) < DistanceTo(b, target)

\* the segments the fallback loop looks at: from the start index on, up to
\* and including the first one that ends more than twice the tolerance
\* after the target
FallbackScanned(from, targetEndTime) ==
    { i \in from..(Len(items) - 1) :
        \A j \in from..(i - 1) :
            EndOf(j) <= targetEndTime + TOLERANCE_WINDOW * 2 }

\* C20: when no candidate lies inside the tolerance window, the break is a
\* scanned segment whose end is closest to the target, the first such one in
\* sequence order, and the chunk broken off is the slice from the start
\* index to the break, so that the output stays a partition.
C20_FallbackFirstClosest ==
    [][ (IsBreakStep /\ WindowSegments(currentStartIndex, TargetOfStep) = {})
        => LET b == currentStartIndex' - 1
               scanned == FallbackScanned(currentStartIndex, TargetOfStep)
           IN  /\ b \in scanned
               /\ \A i \in scanned :
                     /\ DistanceTo(b, TargetOfStep) <= DistanceTo(i, TargetOfStep)
                     /\ DistanceTo(i, TargetOfStep) = DistanceTo(b, TargetOfStep)
                        => b <= i
               /\ Len(chunks') > Len(chunks)
               /\ SubSeq(chunks', 1, Len(chunks)) = chunks
               /\ chunks'[Len(chunks) + 1].items =
                     SubSeq(items, currentStartIndex + 1, b + 1) ]_vars

\* the first chunk broke at the first of two scanned segments that end
\* equally far from the target, no segment ending inside the window
C20_Witness ==
    /\ pc \in {"loop", "done"}
    /\ Len(chunks) >= 2
    /\ LET target == items[1].start + TARGET_CHUNK_DURATION
           b == Len(chunks[1].items) - 1
       IN  /\ WindowSegments(0, target) = {}
           /\ \E i \in FallbackScanned(0, target) :
                 /\ i > b
                 /\ EndOf(i) # EndOf(b)
                 /\ DistanceTo(i, target) = DistanceTo(b, target)

\* ------------------------------------------------------------------------
\* Properties of the route handlers
\* ------------------------------------------------------------------------
\* C18: when every chunk's summarization has failed, the handler, whichever
\* of the two it is, answers with status 500 and the error 'Failed to
\* generate flashcards. Please try again.', and with no flashcard set.
C18_TotalFailureTryAgain ==
    (/\ rpc = "responded"
     /\ Len(results) >= 1
     /\ \A i \in 1..Len(results) : results[i].status = "rejected")
    => /\ endpoint \in {"youtube", "upload"}
       /\ httpStatus = 500
       /\ httpError = "Failed to generate flashcards. Please try again."
       /\ httpSet = <<>>

\* an upload whose two chunks failed for different reasons
C18_Witness ==
    /\ rpc = "responded"
    /\ endpoint = "upload"
    /\ Len(results) = 2
    /\ results[1].status = "rejected"
    /\ results[2].status = "rejected"
    /\ results[1].reason # results[2].reason
    /\ httpStatus = 500
    /\ httpError = "Failed to generate flashcards. Please try again."

\* ------------------------------------------------------------------------
\* Further properties of the chunker
\* ------------------------------------------------------------------------
\* C21: a segment whose end is more than 2 * toleranceWindow (240s) after
\* the target is never chosen as the fallback break.
C21_FallbackWithinRange ==
    [][ (IsBreakStep
         /\ ReachedWindowSegments(currentStartIndex, TargetOfStep) = {})
        => EndOf(currentStartIndex' - 1)
             <= TargetOfStep + 2 * TOLERANCE_WINDOW ]_vars

\* the step at which the safety bound is hit
IsSafetyStep == ~warned /\ warned'

\* C22: when the safety bound is hit the function returns at that step, with
\* the warning, the chunk just broken off and exactly one more chunk holding
\* every segment after the break (none when no segment is left), so that the
\* output holds every segment once, in order.
C22_SafetyBoundRecovery ==
    [][ IsSafetyStep
        => /\ pc' = "done"
           /\ SubSeq(chunks', 1, Len(chunks)) = chunks
           /\ IF currentStartIndex' < Len(items)
              THEN /\ Len(chunks') = Len(chunks) + 2
                   /\ chunks'[Len(chunks')].items =
                         SubSeq(items, currentStartIndex' + 1, Len(items))
              ELSE Len(chunks') = Len(chunks) + 1
           /\ ConcatItems(chunks') = items ]_vars

\* the bound was hit when three segments were left, which share one chunk
C22_Witness ==
    /\ pc = "done"
    /\ warned
    /\ Len(items) = MAX_CHUNKS + 4
    /\ Len(chunks) = MAX_CHUNKS + 2
    /\ Len(chunks[Len(chunks)].items) = 3
    /\ chunks[Len(chunks)].items[3] = items[Len(items)]

\* ------------------------------------------------------------------------
\* Further properties of the aggregator
\* ------------------------------------------------------------------------
\* C23: for a non-empty chunk sequence every chunk's summarization has been
\* invoked exactly once from the moment the function waits, when every
\* outcome is still pending, and the counts never change afterwards: a failed
\* call is not repeated.
C23_OneCallPerChunk ==
    [][ (apc' # "idle" /\ numChunks' >= 1)
        => /\ Len(calls') = numChunks'
           /\ \A i \in 1..numChunks' : calls'[i] = 1
           /\ apc = "idle"
              => /\ apc' = "awaiting"
                 /\ Len(results') = numChunks'
                 /\ \A i \in 1..numChunks' : results'[i].status = "pending"
           /\ apc # "idle" => calls' = calls ]_vars

\* three chunks, the first call failed, all three were called once
C23_Witness ==
    /\ apc = "returned"
    /\ numChunks = 3
    /\ results[1].status = "rejected"
    /\ results[1].reason = "request failed"
    /\ calls = <<1, 1, 1>>

\* the merged items as the claim describes them: the successful chunks'
\* items in chunk order, each id prefixed with the chunk's rank
ExpectedCards ==
    LET origins == OriginsFrom(1)
    IN  [m \in 1..Len(origins) |->
            LET card == results[origins[m].chunk].value[1]
                            .flashcards[origins[m].pos]
            IN  [id |-> NumToString(Rank(origins[m].chunk)) \o "-" \o card.id,
                 question |-> card.question,
                 answer |-> card.answer]]

ExpectedTopic ==
    LET first == results[FirstFulfilled].value[1].topic
    IN  IF NumFulfilled = 1 THEN first
        ELSE first \o " (e mais " \o NumToString(NumFulfilled - 1)
             \o " tópicos)"

\* the tier of maximal count that occurs first
ExpectedDifficulty ==
    CHOOSE d \in Difficulties :
        /\ ChunksOfTier(d) # {}
        /\ \A t \in Difficulties \ {d} :
              \/ Cardinality(ChunksOfTier(t)) < Cardinality(ChunksOfTier(d))
              \/ /\ Cardinality(ChunksOfTier(t)) = Cardinality(ChunksOfTier(d))
                 /\ OccursFirst(d, t)

\* C24: whatever the order in which the calls settled, once the function has
\* ended every slot of the result array holds its own chunk's outcome, and
\* the merged artifact, or the total-failure error, is the one these
\* outcomes determine.
C24_OrderIndependent ==
    (apc \in {"returned", "threw"} /\ numChunks >= 1)
    => /\ results = outcomes
       /\ inflight = {}
       /\ IF \A i \in 1..numChunks : outcomes[i].status = "rejected"
          THEN /\ apc = "threw"
               /\ thrown = "All chunks failed to generate flashcards"
               /\ returned = <<>>
          ELSE /\ apc = "returned"
               /\ returned =
                    << [topic |-> ExpectedTopic,
                        difficulty |-> ExpectedDifficulty,
                        language |-> language,
                        flashcards |-> ExpectedCards,
                        metadata |-> [totalChunks |-> numChunks,
                                      successfulChunks |-> NumFulfilled]] >>

\* three chunks with three different outcomes, the second one a failure
C24_Witness ==
    /\ apc = "returned"
    /\ numChunks = 3
    /\ results = outcomes
    /\ outcomes[1].status = "fulfilled"
    /\ outcomes[2].status = "rejected"
    /\ outcomes[3].status = "fulfilled"
    /\ outcomes[1].value[1].topic # outcomes[3].value[1].topic
    /\ outcomes[1].value[1].difficulty # outcomes[3].value[1].difficulty

\* a response that is absent, is not JSON, or is an object with a missing or
\* empty topic, an unknown difficulty, no flashcard, or a flashcard with an
\* empty question or answer
BadResponse(resp) ==
    \/ resp.kind = "none"
    \/ resp.kind = "text"
    \/ /\ resp.kind = "json"
       /\ \/ "topic" \notin DOMAIN resp.parsed
          \/ resp.parsed.topic = ""
          \/ resp.parsed.difficulty \notin {"beginner", "intermediate", "advanced"}
          \/ resp.parsed.flashcards = <<>>
          \/ \E p \in DOMAIN resp.parsed.flashcards :
                \/ resp.parsed.flashcards[p].question = ""
                \/ resp.parsed.flashcards[p].answer = ""

\* the chunks whose response is a well-formed object
WellFormedChunks ==
    { i \in 1..numChunks :
        responses[i].kind = "json" /\ ~BadResponse(responses[i]) }

RECURSIVE CardsOf(_)
CardsOf(upTo) ==
    IF upTo = 0 THEN <<>>
    ELSE CardsOf(upTo - 1)
         \o (IF upTo \in WellFormedChunks
             THEN responses[upTo].parsed.flashcards ELSE <<>>)

\* C25: a chunk whose response is bad settles as a failed call and stays
\* one; what is merged are the items of the well-formed responses and
\* nothing else, and only those chunks count as successful.
C25_ValidationBoundary ==
    apc # "idle"
    => /\ \A i \in 1..numChunks :
             BadResponse(responses[i])
             => /\ outcomes[i].status = "rejected"
                /\ i \notin inflight => results[i].status = "rejected"
       /\ apc = "returned"
          => /\ returned[1].metadata.successfulChunks
                  = Cardinality(WellFormedChunks)
             /\ Len(returned[1].flashcards) = Len(CardsOf(numChunks))
             /\ \A m \in 1..Len(returned[1].flashcards) :
                   /\ returned[1].flashcards[m].question
                        = CardsOf(numChunks)[m].question
                   /\ returned[1].flashcards[m].answer
                        = CardsOf(numChunks)[m].answer
       /\ (apc = "threw" /\ numChunks >= 1) => WellFormedChunks = {}

\* an object without a topic and one with an empty answer failed, the third
\* chunk's object was merged alone
C25_Witness ==
    /\ apc = "returned"
    /\ numChunks = 3
    /\ responses[1].kind = "json"
    /\ "topic" \notin DOMAIN responses[1].parsed
    /\ responses[2].kind = "json"
    /\ \E p \in DOMAIN responses[2].parsed.flashcards :
          responses[2].parsed.flashcards[p].answer = ""
    /\ results[1].status = "rejected"
    /\ results[2].status = "rejected"
    /\ returned[1].metadata.successfulChunks = 1

\* ------------------------------------------------------------------------
\* Properties of the summarize handler
\* ------------------------------------------------------------------------
\* C26: the transcript of a video longer than 40 minutes is never sent to
\* the summarization model, and the request is answered with status 400 and
\* 'Only videos up to 40 minutes are supported.'.
C26_FortyMinuteLimit ==
    (endpoint = "summarize" /\ videoDuration > 40 * 60)
    => /\ sentTranscript = ""
       /\ rpc = "responded"
       /\ httpStatus = 400
       /\ httpError = "Only videos up to 40 minutes are supported."

\* ------------------------------------------------------------------------
\* Chunk sizes
\* ------------------------------------------------------------------------
\* C27: every chunk of the output holds at least one segment; the chunk a
\* loop step breaks off runs from the start index to a break index that is
\* >= the start index and < the number of segments, and the next chunk
\* starts right after it.
C27_NoEmptyChunk ==
    [][ /\ \A k \in 1..Len(chunks') : Len(chunks'[k].items) >= 1
        /\ IsBreakStep
           => LET broken == chunks'[Len(chunks) + 1]
                  breakIndex == currentStartIndex + Len(broken.items) - 1
              IN  /\ breakIndex >= currentStartIndex
                  /\ breakIndex < Len(items)
                  /\ broken.items[Len(broken.items)] = items[breakIndex + 1]
                  /\ currentStartIndex' = breakIndex + 1 ]_vars

\* the fallback broke at the start index itself: a chunk of one segment,
\* followed by others
C27_Witness ==
    /\ pc = "done"
    /\ ~warned
    /\ Len(chunks) = 3
    /\ Len(chunks[1].items) = 1
    /\ Len(chunks[2].items) = 1
    /\ Len(items) >= 4

\* the step of the 'near the end of the transcript' branch
IsFinalStep ==
    /\ pc = "loop"
    /\ pc' = "done"
    /\ Len(chunks') = Len(chunks) + 1
    /\ currentStartIndex' = currentStartIndex

\* C28: with segments left, the loop takes the 'near the end' branch exactly
\* when the chunk's start + target >= the last segment's end - tolerance,
\* whatever totalDuration is; the chunk it emits holds every segment left,
\* ends at the last segment's end and that end is at most target + tolerance
\* after the chunk's start.
C28_FinalChunkLength ==
    [][ (pc = "loop" /\ currentStartIndex < Len(items))
        => LET chunkStartTime == items[currentStartIndex + 1].start
               transcriptEndTime == EndOf(Len(items) - 1)
           IN  /\ IsFinalStep
                  <=> chunkStartTime + TARGET_CHUNK_DURATION
                        >= transcriptEndTime - TOLERANCE_WINDOW
               /\ IsFinalStep
                  => /\ transcriptEndTime - chunkStartTime
                          <= TARGET_CHUNK_DURATION + TOLERANCE_WINDOW
                     /\ chunks'[Len(chunks')].startTime = chunkStartTime
                     /\ chunks'[Len(chunks')].endTime = transcriptEndTime
                     /\ chunks'[Len(chunks')].items =
                           SubSeq(items, currentStartIndex + 1, Len(items)) ]_vars

\* a final chunk of two segments after a loop chunk; totalDuration is more
\* than target + tolerance after its start, the last segment's end is not
C28_Witness ==
    /\ pc = "done"
    /\ currentStartIndex < Len(items)
    /\ Len(chunks) = 2
    /\ Len(chunks[2].items) = 2
    /\ chunks[2].endTime = EndOf(Len(items) - 1)
    /\ totalDuration - chunks[2].startTime
         > TARGET_CHUNK_DURATION + TOLERANCE_WINDOW
    /\ chunks[2].endTime - chunks[2].startTime
         <= TARGET_CHUNK_DURATION + TOLERANCE_WINDOW

\* C29: in both flashcard pipelines only a non-empty transcript reaches the
\* chunker, the chunker turns it into at least one chunk, and the aggregator
\* is called with these chunks: 'No transcript chunks provided' never occurs.
C29_AggregatorGetsChunks ==
    endpoint \in {"youtube", "upload"}
    => /\ rpc \in {"chunking", "generating"} => Len(items) >= 1
       /\ (rpc = "chunking" /\ pc = "done") => Len(chunks) >= 1
       /\ rpc = "generating"
          => /\ numChunks = Len(chunks)
             /\ numChunks >= 1
             /\ apc # "idle"
       /\ thrown # "No transcript chunks provided"
       /\ apc # "idle" => rpc \in {"generating", "responded"}

\* the upload handler answered a transcript of one segment with a set made
\* from its single chunk
C29_Witness ==
    /\ endpoint = "upload"
    /\ rpc = "responded"
    /\ httpStatus = 200
    /\ Len(items) = 1
    /\ numChunks = 1
    /\ Len(httpSet) = 1

\* ------------------------------------------------------------------------
\* Properties of the home page
\* ------------------------------------------------------------------------
\* C30: once a submission has finished, loading is false and loadingMessage
\* is empty, and it stays so: in every state loading = false implies
\* loadingMessage = ''.
C30_LoadingMessageCleared ==
    /\ hpc = "finished" => (~loading /\ loadingMessage = "")
    /\ ~loading => loadingMessage = ""

====
